---- MODULE Spec2Model ----
(***************************************************************************)
(* Model of firebase_realtime_dashboard.py: the five query functions       *)
(* (get_player_count, get_players_by_source, get_ad_metrics,               *)
(* fetch_latest_players, fetch_latest_conversions_efficiently) over a      *)
(* store holding the PLAYERS and CONVERSIONS collections.                  *)
(*                                                                         *)
(* Each function is one atomic action.  Its inputs are its argument and    *)
(* the position of the store read that raises (0: none).  The functions    *)
(* are operators returning [raised, value]: raised says that an exception  *)
(* left the function.                                                      *)
(***************************************************************************)
EXTENDS Integers, Sequences, FiniteSets

VARIABLES PLAYERS, CONVERSIONS, ret

vars == <<PLAYERS, CONVERSIONS, ret>>

----------------------------------------------------------------------------
(* Bounds of the model.                                                    *)

\* Number of keys under PLAYERS.
MaxPlayers == 3
\* Number of conversion keys under one user of CONVERSIONS.
MaxConvs == 2
\* Largest limit handed to the two fetch functions.
MaxLimit == 3

----------------------------------------------------------------------------
(* Sequences.                                                              *)

Min(a, b) == IF a <= b THEN a ELSE b

Max(a, b) == IF a >= b THEN a ELSE b

RECURSIVE Reverse(_)
Reverse(s) == IF s = <<>> THEN <<>> ELSE Append(Reverse(Tail(s)), Head(s))

RECURSIVE SelectSeqBy(_, _)
\* The subsequence of s of the elements whose index i has keep[i].
SelectSeqBy(s, keep) ==
    IF s = <<>> THEN <<>>
    ELSE LET n == Len(s)
             front == SelectSeqBy(SubSeq(s, 1, n - 1), keep)
         IN  IF keep[n] THEN Append(front, s[n]) ELSE front

----------------------------------------------------------------------------
(* Numbers.  A JSON number is a rational [num, den] in lowest terms, so    *)
(* that float() keeps a fraction and int() drops it.                       *)

RECURSIVE GCD(_, _)
GCD(a, b) == IF b = 0 THEN a ELSE GCD(b, a % b)

Abs(n) == IF n < 0 THEN -n ELSE n

Rat(n, d) ==
    LET g == GCD(Abs(n), d)
    IN  [num |-> n \div g, den |-> d \div g]

Zero == Rat(0, 1)

RatAdd(a, b) == Rat(a.num * b.den + b.num * a.den, a.den * b.den)

RatMulInt(a, k) == Rat(a.num * k, a.den)

\* a / k for an integer k > 0
RatDivInt(a, k) == Rat(a.num, a.den * k)

RatLess(a, b) == a.num * b.den < b.num * a.den

\* int(x) of a float: truncation toward zero
Trunc(a) ==
    IF a.num >= 0 THEN Rat(a.num \div a.den, 1)
    ELSE Rat(-((-a.num) \div a.den), 1)

----------------------------------------------------------------------------
(* Text.  A str is a sequence of one-character strings.                    *)

\* The characters of the model in code point order.
Alphabet ==
    <<"-", ".", "0", "1", "2", "3", "4", "5", "6", "7", "8", "9",
      "A", "C", "G", "I", "N", "O", "R", "S",
      "a", "c", "g", "i", "n", "o", "p", "r", "s", "u", "x">>

CharCode(c) == CHOOSE i \in 1..Len(Alphabet) : Alphabet[i] = c

LowerCase == <<"a", "c", "g", "i", "n", "o", "r", "s">>

UpperCase == <<"A", "C", "G", "I", "N", "O", "R", "S">>

LowerChar(c) ==
    IF \E i \in 1..Len(UpperCase) : UpperCase[i] = c
    THEN LowerCase[CHOOSE i \in 1..Len(UpperCase) : UpperCase[i] = c]
    ELSE c

UpperChar(c) ==
    IF \E i \in 1..Len(LowerCase) : LowerCase[i] = c
    THEN UpperCase[CHOOSE i \in 1..Len(LowerCase) : LowerCase[i] = c]
    ELSE c

\* str.lower()
Lower(s) == [i \in 1..Len(s) |-> LowerChar(s[i])]

\* str.upper()
Upper(s) == [i \in 1..Len(s) |-> UpperChar(s[i])]

RECURSIVE TextLess(_, _)
\* s < t of two str: lexicographic by code point
TextLess(s, t) ==
    IF t = <<>> THEN FALSE
    ELSE IF s = <<>> THEN TRUE
    ELSE IF s[1] # t[1] THEN CharCode(s[1]) < CharCode(t[1])
    ELSE TextLess(Tail(s), Tail(t))

Digits == <<"0", "1", "2", "3", "4", "5", "6", "7", "8", "9">>

IsDigit(c) == \E i \in 1..Len(Digits) : Digits[i] = c

DigitVal(c) == (CHOOSE i \in 1..Len(Digits) : Digits[i] = c) - 1

AllDigits(s) == \A i \in 1..Len(s) : IsDigit(s[i])

RECURSIVE DigitsValue(_)
DigitsValue(s) ==
    IF s = <<>> THEN 0
    ELSE DigitsValue(SubSeq(s, 1, Len(s) - 1)) * 10 + DigitVal(s[Len(s)])

RECURSIVE Pow10(_)
Pow10(k) == IF k = 0 THEN 1 ELSE 10 * Pow10(k - 1)

Unsigned(s) == IF s # <<>> /\ s[1] = "-" THEN Tail(s) ELSE s

Sign(s) == IF s # <<>> /\ s[1] = "-" THEN -1 ELSE 1

\* The texts int(str) accepts: an optional sign and digits.
IsIntLiteral(s) == Unsigned(s) # <<>> /\ AllDigits(Unsigned(s))

\* The texts float(str) accepts: an optional sign, digits with at most one
\* point among them, and at least one digit.
IsFloatLiteral(s) ==
    LET u == Unsigned(s)
        points == {i \in 1..Len(u) : u[i] = "."}
    IN  /\ Cardinality(points) <= 1
        /\ \A i \in 1..Len(u) : i \in points \/ IsDigit(u[i])
        /\ Len(u) > Cardinality(points)

IntLiteralValue(s) == Rat(Sign(s) * DigitsValue(Unsigned(s)), 1)

FloatLiteralValue(s) ==
    LET u == Unsigned(s)
        points == {i \in 1..Len(u) : u[i] = "."}
        p == IF points = {} THEN Len(u) + 1 ELSE CHOOSE i \in points : TRUE
        whole == SubSeq(u, 1, p - 1)
        frac == SubSeq(u, p + 1, Len(u))
    IN  Rat(Sign(s) * (DigitsValue(whole) * Pow10(Len(frac)) + DigitsValue(frac)),
            Pow10(Len(frac)))

----------------------------------------------------------------------------
(* Values of a document field: absent, a number or a text.                 *)

Absent == [kind |-> "absent", n |-> Zero, s |-> <<>>]

Num(n, d) == [kind |-> "num", n |-> Rat(n, d), s |-> <<>>]

Txt(s) == [kind |-> "text", n |-> Zero, s |-> s]

\* Outcome of a call or of a conversion: a value, or an exception.
Return(v) == [raised |-> FALSE, value |-> v]

Raise == [raised |-> TRUE, value |-> <<>>]

\* dict.get(field, 0)
GetOrZero(v) == IF v.kind = "absent" THEN Num(0, 1) ELSE v

\* float(v): ValueError for a text that is no float literal
float(v) ==
    IF v.kind = "num" THEN Return(v.n)
    ELSE IF IsFloatLiteral(v.s) THEN Return(FloatLiteralValue(v.s))
    ELSE Raise

\* int(v): a number is truncated; ValueError for a text that is no integer
\* literal
int(v) ==
    IF v.kind = "num" THEN Return(Trunc(v.n))
    ELSE IF IsIntLiteral(v.s) THEN Return(IntLiteralValue(v.s))
    ELSE Raise

----------------------------------------------------------------------------
(* The store.  PLAYERS[k] is the node under the k-th player key: nothing,  *)
(* a scalar, or a document.  CONVERSIONS[u] is the node under the u-th     *)
(* user key: nothing, a scalar, or a mapping of conversion keys to nodes.  *)

PlayerFields == {"Source", "Install_time", "Ad_Revenue", "Impressions", "uid"}

ConvFields == {"time", "user_id", "conversion_id"}

EmptyPlayerDoc == [f \in PlayerFields |-> Absent]

EmptyConvDoc == [f \in ConvFields |-> Absent]

NoNode(empty) == [kind |-> "none", doc |-> empty]

ScalarNode(empty) == [kind |-> "scalar", doc |-> empty]

DocNode(d) == [kind |-> "doc", doc |-> d]

\* isinstance(x, dict) of a node read from the store
IsDict(node) == node.kind = "doc"

PlayerKey(k) == <<"p", Digits[k + 1]>>

UserKey(u) == <<"u", Digits[u + 1]>>

ConvKey(c) == <<"c", Digits[c + 1]>>

\* {**first, **second}: a field of second wins over the same field of first
DictMerge(first, second) ==
    [f \in DOMAIN first |->
        IF second[f].kind # "absent" THEN second[f] ELSE first[f]]

----------------------------------------------------------------------------
(* try / except Exception.                                                 *)

\* TryExcept without the except clause: the exception leaves the function.
TryExceptMissing(body, nodata) == body

\* try: body  except Exception: return nodata
TryExcept(body, nodata) == IF body.raised THEN Return(nodata) ELSE body

\* The outcome of store read number n of a call whose read number failAt
\* raises.
Read(n, failAt, result) == IF failAt = n THEN Raise ELSE Return(result)

----------------------------------------------------------------------------
(* Store queries on PLAYERS.                                               *)

\* ref.get(shallow=True): the keys that hold something, in key order
ShallowKeys(nodes) ==
    SelectSeqBy([k \in 1..Len(nodes) |-> k],
                [k \in 1..Len(nodes) |-> nodes[k].kind # "none"])

\* The store's order of two values of the ordering child: a node without
\* the child first, then numbers ascending, then texts.
ChildRank(v) == CASE v.kind = "absent" -> 0 [] v.kind = "num" -> 1 [] OTHER -> 2

ChildLess(v, w) ==
    IF ChildRank(v) # ChildRank(w) THEN ChildRank(v) < ChildRank(w)
    ELSE IF v.kind = "num" THEN RatLess(v.n, w.n)
    ELSE IF v.kind = "text" THEN TextLess(v.s, w.s)
    ELSE FALSE

\* The place of key k in order_by_child(child): by child value, then by key
OrderBefore(P, child, j, k) ==
    \/ ChildLess(P[j].doc[child], P[k].doc[child])
    \/ /\ ~ChildLess(P[k].doc[child], P[j].doc[child])
       /\ j < k

RECURSIVE InsertKey(_, _, _, _)
InsertKey(P, child, sorted, k) ==
    IF sorted = <<>> THEN <<k>>
    ELSE IF OrderBefore(P, child, k, Head(sorted)) THEN <<k>> \o sorted
    ELSE <<Head(sorted)>> \o InsertKey(P, child, Tail(sorted), k)

RECURSIVE OrderByChild(_, _, _)
\* The keys in keys, in the order of order_by_child(child)
OrderByChild(P, child, keys) ==
    IF keys = <<>> THEN <<>>
    ELSE InsertKey(P, child, OrderByChild(P, child, Tail(keys)), Head(keys))

\* order_by_child(child).limit_to_last(limit).get(): the last limit keys of
\* the order, ascending
OrderedTail(P, child, limit) ==
    LET all == OrderByChild(P, child, ShallowKeys(P))
    IN  SubSeq(all, Max(1, Len(all) - limit + 1), Len(all))

\* order_by_child(child).equal_to(text).get(): the keys of the documents
\* whose child is exactly text
EqualTo(P, child, text) ==
    {k \in 1..Len(P) : IsDict(P[k]) /\ P[k].doc[child] = Txt(text)}

----------------------------------------------------------------------------
(* get_player_count                                                        *)

get_player_count_body(P, failAt) ==
    LET count_data == Read(1, failAt, ShallowKeys(P))
    IN  IF count_data.raised THEN Raise
        ELSE IF count_data.value # <<>> THEN Return(Len(count_data.value))
        ELSE Return(0)

get_player_count(P, failAt) == TryExcept(get_player_count_body(P, failAt), 0)

----------------------------------------------------------------------------
(* get_players_by_source                                                   *)

get_players_by_source_body(P, source_name, failAt) ==
    LET source_lower == Lower(source_name)
        source_upper == Upper(source_name)
        exact_match == Read(1, failAt, EqualTo(P, "Source", source_name))
        lower_match == Read(2, failAt, EqualTo(P, "Source", source_lower))
        upper_match == Read(3, failAt, EqualTo(P, "Source", source_upper))
    IN  IF exact_match.raised \/ lower_match.raised \/ upper_match.raised
        THEN Raise
        ELSE Return(Cardinality(exact_match.value \cup lower_match.value
                                \cup upper_match.value))

get_players_by_source(P, source_name, failAt) ==
    TryExcept(get_players_by_source_body(P, source_name, failAt), 0)

----------------------------------------------------------------------------
(* get_ad_metrics                                                          *)

\* limit_to_last(100)
SampleSize == 100

NoMetrics == [revenue |-> Zero, impressions |-> Zero]

\* try: total_ad_revenue += float(player_data.get("Ad_Revenue", 0))
\* except (ValueError, TypeError): pass
AddRevenue(total, doc) ==
    LET ad_revenue == float(GetOrZero(doc["Ad_Revenue"]))
    IN  IF ad_revenue.raised THEN total ELSE RatAdd(total, ad_revenue.value)

\* AddImpressions converting like the revenue, with float().
AddImpressionsAsFloat(total, doc) ==
    LET impressions == float(GetOrZero(doc["Impressions"]))
    IN  IF impressions.raised THEN total ELSE RatAdd(total, impressions.value)

\* try: total_impressions += int(player_data.get("Impressions", 0))
\* except (ValueError, TypeError): pass
AddImpressions(total, doc) ==
    LET impressions == int(GetOrZero(doc["Impressions"]))
    IN  IF impressions.raised THEN total ELSE RatAdd(total, impressions.value)

RECURSIVE SampleTotals(_, _)
\* for player_data in sample.values(): an entry that is no document is
\* passed over, a document adds to both totals
SampleTotals(P, sample) ==
    IF sample = <<>> THEN NoMetrics
    ELSE LET n == Len(sample)
             totals == SampleTotals(P, SubSeq(sample, 1, n - 1))
         IN  IF ~IsDict(P[sample[n]]) THEN totals
             ELSE [revenue |-> AddRevenue(totals.revenue, P[sample[n]].doc),
                   impressions |->
                       AddImpressions(totals.impressions, P[sample[n]].doc)]

\* avg = total / len(sample); estimate = avg * player_count
Extrapolate(total, sample_len, player_count) ==
    RatMulInt(RatDivInt(total, sample_len), player_count)

\* get_ad_metrics_body dividing by the number of documents of the sample
\* instead of the number of its entries.
get_ad_metrics_body_per_document(P, failAt) ==
    LET sample == Read(1, failAt, OrderedTail(P, "Install_time", SampleSize))
        documents == SelectSeq(sample.value, LAMBDA k : IsDict(P[k]))
        count == get_player_count(P, IF failAt = 2 THEN 1 ELSE 0)
        player_count == count.value
    IN  IF sample.raised \/ count.raised THEN Raise
        ELSE IF player_count = 0 \/ documents = <<>> THEN Return(NoMetrics)
        ELSE Return([revenue |->
                         Extrapolate(SampleTotals(P, sample.value).revenue,
                                     Len(documents), player_count),
                     impressions |->
                         Extrapolate(SampleTotals(P, sample.value).impressions,
                                     Len(documents), player_count)])

get_ad_metrics_body(P, failAt) ==
    LET sample == Read(1, failAt, OrderedTail(P, "Install_time", SampleSize))
    IN  IF sample.raised THEN Raise
        ELSE IF sample.value = <<>> THEN Return(NoMetrics)
        ELSE
          LET total_ad_revenue == SampleTotals(P, sample.value).revenue
              total_impressions == SampleTotals(P, sample.value).impressions
              count == get_player_count(P, IF failAt = 2 THEN 1 ELSE 0)
              player_count == count.value
          IN  IF count.raised THEN Raise
              ELSE IF player_count = 0 \/ Len(sample.value) = 0
              THEN Return(NoMetrics)
              ELSE Return([revenue |->
                               Extrapolate(total_ad_revenue,
                                           Len(sample.value), player_count),
                           impressions |->
                               Extrapolate(total_impressions,
                                           Len(sample.value), player_count)])

get_ad_metrics(P, failAt) == TryExcept(get_ad_metrics_body(P, failAt), NoMetrics)

----------------------------------------------------------------------------
(* fetch_latest_players                                                    *)

\* {"uid": uid, **record}
PlayerRecord(k, record) ==
    DictMerge([EmptyPlayerDoc EXCEPT !.uid = Txt(PlayerKey(k))], record)

RECURSIVE PlayerRecords(_, _)
\* [{"uid": uid, **record} for uid, record in data.items()
\*  if isinstance(record, dict)]
PlayerRecords(P, data) ==
    IF data = <<>> THEN <<>>
    ELSE LET rest == PlayerRecords(P, Tail(data))
         IN  IF IsDict(P[Head(data)])
             THEN <<PlayerRecord(Head(data), P[Head(data)].doc)>> \o rest
             ELSE rest

\* The query of fetch_latest_players.  limit_to_last refuses a negative
\* limit (ValueError).  Without an index on Install_time the store hands
\* back nothing, or an error (the failing read).
LatestQuery(P, limit, indexed, failAt) ==
    IF limit < 0 THEN Raise
    ELSE Read(1, failAt,
              IF indexed THEN OrderedTail(P, "Install_time", limit) ELSE <<>>)

fetch_latest_players_body(P, limit, indexed, failAt) ==
    LET data == LatestQuery(P, limit, indexed, failAt)
    IN  IF data.raised THEN Raise
        ELSE IF data.value # <<>> THEN Return(PlayerRecords(P, data.value))
        ELSE Return(<<>>)

fetch_latest_players(P, limit, indexed, failAt) ==
    TryExcept(fetch_latest_players_body(P, limit, indexed, failAt), <<>>)

----------------------------------------------------------------------------
(* fetch_latest_conversions_efficiently                                    *)

NoUser == [kind |-> "none", convs |-> [c \in 1..MaxConvs |-> NoNode(EmptyConvDoc)]]

ScalarUser ==
    [kind |-> "scalar", convs |-> [c \in 1..MaxConvs |-> NoNode(EmptyConvDoc)]]

MapUser(convs) == [kind |-> "map", convs |-> convs]

\* {"user_id": user_id, "conversion_id": conv_id, **conv_data}
ConversionRecord(u, c, conv_data) ==
    DictMerge([EmptyConvDoc EXCEPT !.user_id = Txt(UserKey(u)),
                                   !.conversion_id = Txt(ConvKey(c))],
              conv_data)

\* The state of the scan: whether a read raised, the conversions collected
\* so far, and the number of reads made.
ScanStart == [raised |-> FALSE, all_conversions |-> <<>>, reads |-> 1]

RECURSIVE ScanConvs(_, _, _, _, _)
\* for conv_id in user_conv_ids.keys(): one read per conversion
ScanConvs(C, u, conv_ids, failAt, st) ==
    IF st.raised \/ conv_ids = <<>> THEN st
    ELSE LET c == Head(conv_ids)
             conv_data == Read(st.reads + 1, failAt, C[u].convs[c])
             next ==
                 IF conv_data.raised
                 THEN [st EXCEPT !.raised = TRUE, !.reads = @ + 1]
                 ELSE IF ~IsDict(conv_data.value)
                 THEN [st EXCEPT !.reads = @ + 1]
                 ELSE [st EXCEPT !.reads = @ + 1,
                                 !.all_conversions =
                                     Append(@, ConversionRecord(u, c,
                                                   conv_data.value.doc))]
         IN  ScanConvs(C, u, Tail(conv_ids), failAt, next)

RECURSIVE ScanUsers(_, _, _, _)
\* for user_id in user_data.keys(): one shallow read per user, then the
\* user's conversions
ScanUsers(C, user_ids, failAt, st) ==
    IF st.raised \/ user_ids = <<>> THEN st
    ELSE LET u == Head(user_ids)
             user_conv_ids ==
                 Read(st.reads + 1, failAt,
                      IF C[u].kind = "map" THEN ShallowKeys(C[u].convs)
                      ELSE <<>>)
             next ==
                 IF user_conv_ids.raised
                 THEN [st EXCEPT !.raised = TRUE, !.reads = @ + 1]
                 ELSE ScanConvs(C, u, user_conv_ids.value, failAt,
                                [st EXCEPT !.reads = @ + 1])
         IN  ScanUsers(C, Tail(user_ids), failAt, next)

\* x.get("time", 0)
TimeKey(x) == GetOrZero(x["time"])

\* a < b of two sort keys of the same type
KeyLess(a, b) == IF a.kind = "num" THEN RatLess(a.n, b.n) ELSE TextLess(a.s, b.s)

RECURSIVE InsertStable(_, _)
\* x placed behind the elements that are not larger
InsertStable(sorted, x) ==
    IF sorted = <<>> THEN <<x>>
    ELSE IF KeyLess(TimeKey(x), TimeKey(Head(sorted))) THEN <<x>> \o sorted
    ELSE <<Head(sorted)>> \o InsertStable(Tail(sorted), x)

RECURSIVE StableSort(_)
\* list.sort(): ascending, equal keys in their order
StableSort(xs) ==
    IF xs = <<>> THEN <<>>
    ELSE InsertStable(StableSort(SubSeq(xs, 1, Len(xs) - 1)), xs[Len(xs)])

\* sorted(xs, key=lambda x: x.get("time", 0), reverse=True): the list is
\* reversed, sorted ascending and reversed again; comparing a number with
\* a text raises TypeError
sorted_reverse(xs) ==
    IF \E i, j \in 1..Len(xs) : TimeKey(xs[i]).kind # TimeKey(xs[j]).kind
    THEN Raise
    ELSE Return(Reverse(StableSort(Reverse(xs))))

\* xs[:limit]
SliceTo(xs, limit) ==
    IF limit >= 0 THEN SubSeq(xs, 1, Min(limit, Len(xs)))
    ELSE SubSeq(xs, 1, Max(Len(xs) + limit, 0))

\* The keys under CONVERSIONS that hold something.
UserKeys(C) ==
    SelectSeqBy([u \in 1..Len(C) |-> u], [u \in 1..Len(C) |-> C[u].kind # "none"])

fetch_latest_conversions_efficiently_body(C, limit, failAt) ==
    LET user_data == Read(1, failAt, UserKeys(C))
    IN  IF user_data.raised THEN Raise
        ELSE IF user_data.value = <<>> THEN Return(<<>>)
        ELSE
          LET scan == ScanUsers(C, user_data.value, failAt, ScanStart)
              sorted_conversions == sorted_reverse(scan.all_conversions)
          IN  IF scan.raised \/ sorted_conversions.raised THEN Raise
              ELSE Return(SliceTo(sorted_conversions.value, limit))

\* fetch_latest_conversions_efficiently with an except clause that gives
\* back what the scan had collected when the read raised.
fetch_latest_conversions_partial(C, limit, failAt) ==
    LET scan == ScanUsers(C, UserKeys(C), failAt, ScanStart)
        sorted_conversions == sorted_reverse(scan.all_conversions)
    IN  IF failAt = 1 \/ sorted_conversions.raised THEN Return(<<>>)
        ELSE Return(SliceTo(sorted_conversions.value, limit))

fetch_latest_conversions_efficiently(C, limit, failAt) ==
    TryExcept(fetch_latest_conversions_efficiently_body(C, limit, failAt), <<>>)

----------------------------------------------------------------------------
(* The calls.  The script is single-threaded: a call starts when no other  *)
(* is under way.  ret records the call: the function, its argument, the    *)
(* read that raised (0: none), whether the store has the Install_time      *)
(* index, and what the call gave back, until the caller has taken it.      *)

Call(op, arg, indexed, failAt, out) ==
    [op |-> op, arg |-> arg, indexed |-> indexed, failAt |-> failAt,
     raised |-> out.raised, value |-> out.value]

NoCall == Call("none", 0, TRUE, 0, Return(0))

\* The arguments of get_players_by_source.
SourceNames ==
    { <<"o", "r", "g", "a", "n", "i", "c">>,
      <<"O", "r", "g", "a", "n", "i", "c">>,
      <<"O", "R", "G", "A", "N", "I", "C">> }

Limits == -1..MaxLimit

\* The reads of the longest scan: CONVERSIONS, each user, each conversion.
MaxReads(C) == 1 + Len(C) * (1 + MaxConvs)

GetPlayerCount ==
    /\ ret.op = "none"
    /\ \E failAt \in 0..1 :
           ret' = Call("get_player_count", 0, TRUE, failAt,
                       get_player_count(PLAYERS, failAt))
    /\ UNCHANGED <<PLAYERS, CONVERSIONS>>

GetPlayersBySource ==
    /\ ret.op = "none"
    /\ \E source_name \in SourceNames, failAt \in 0..3 :
           ret' = Call("get_players_by_source", source_name, TRUE, failAt,
                       get_players_by_source(PLAYERS, source_name, failAt))
    /\ UNCHANGED <<PLAYERS, CONVERSIONS>>

GetAdMetrics ==
    /\ ret.op = "none"
    /\ \E failAt \in 0..2 :
           ret' = Call("get_ad_metrics", 0, TRUE, failAt,
                       get_ad_metrics(PLAYERS, failAt))
    /\ UNCHANGED <<PLAYERS, CONVERSIONS>>

FetchLatestPlayers ==
    /\ ret.op = "none"
    /\ \E limit \in Limits, indexed \in BOOLEAN, failAt \in 0..1 :
           ret' = Call("fetch_latest_players", limit, indexed, failAt,
                       fetch_latest_players(PLAYERS, limit, indexed, failAt))
    /\ UNCHANGED <<PLAYERS, CONVERSIONS>>

FetchLatestConversions ==
    /\ ret.op = "none"
    /\ \E limit \in Limits, failAt \in 0..MaxReads(CONVERSIONS) :
           ret' = Call("fetch_latest_conversions_efficiently", limit, TRUE,
                       failAt,
                       fetch_latest_conversions_efficiently(CONVERSIONS,
                                                            limit, failAt))
    /\ UNCHANGED <<PLAYERS, CONVERSIONS>>

----------------------------------------------------------------------------
(* Store contents.  Each specification draws the collection its functions  *)
(* read from the documents that vary the fields those functions look at.   *)

organic == <<"o", "r", "g", "a", "n", "i", "c">>

Organic == <<"O", "r", "g", "a", "n", "i", "c">>

ORGANIC == <<"O", "R", "G", "A", "N", "I", "C">>

organics == <<"o", "r", "g", "a", "n", "i", "c", "s">>

PlayerDoc(source, install_time, ad_revenue, impressions, uid) ==
    [Source |-> source, Install_time |-> install_time,
     Ad_Revenue |-> ad_revenue, Impressions |-> impressions, uid |-> uid]

ConvDoc(time, user_id, conversion_id) ==
    [time |-> time, user_id |-> user_id, conversion_id |-> conversion_id]

OtherNodes(empty) == {NoNode(empty), ScalarNode(empty)}

\* Documents that differ in Source.
SourceDocs ==
    {PlayerDoc(src, Absent, Absent, Absent, Absent) :
        src \in {Absent, Num(7, 1), Txt(organic), Txt(Organic), Txt(ORGANIC),
                 Txt(organics)}}

\* Documents that differ in Install_time and in having a uid field.
LatestDocs ==
    {PlayerDoc(Absent, t, Absent, Absent, uid) :
        t \in {Absent, Num(1, 1), Num(2, 1)}, uid \in {Absent, Txt(<<"x">>)}}

\* Documents that differ in Ad_Revenue or in Impressions.
MetricDocs ==
    {PlayerDoc(Absent, Absent, rev, Absent, Absent) :
        rev \in {Absent, Num(100, 1), Num(300, 1), Num(-100, 1),
                 Txt(<<"2", ".", "5">>), Txt(<<"x">>)}}
    \cup
    {PlayerDoc(Absent, Absent, Absent, imp, Absent) :
        imp \in {Num(3, 1), Num(5, 2), Num(-5, 2), Txt(<<"7">>),
                 Txt(<<"2", ".", "5">>), Txt(<<"x">>)}}

\* Documents that differ in time.
TimeDocs ==
    {ConvDoc(t, Absent, Absent) :
        t \in {Absent, Num(1, 1), Num(-1, 1), Txt(<<"a">>)}}

\* Documents with and without fields named as the injected ones.
SmallConvDocs ==
    {ConvDoc(Num(1, 1), Absent, Absent),
     ConvDoc(Num(2, 1), Txt(<<"x">>), Txt(<<"x">>))}

SmallPlayerDocs ==
    {PlayerDoc(Txt(organic), Num(1, 1), Num(100, 1), Num(3, 1), Absent),
     PlayerDoc(Txt(ORGANIC), Num(2, 1), Num(300, 1), Absent, Txt(<<"x">>))}

PlayerStores(docs) ==
    [1..MaxPlayers -> {DocNode(d) : d \in docs} \cup OtherNodes(EmptyPlayerDoc)]

\* A user whose conversions are all gone is gone.
UserOf(convs) ==
    IF \A c \in 1..MaxConvs : convs[c].kind = "none" THEN NoUser
    ELSE MapUser(convs)

UserNodes(docs) ==
    {ScalarUser} \cup
    {UserOf(convs) :
        convs \in [1..MaxConvs ->
                      {DocNode(d) : d \in docs} \cup OtherNodes(EmptyConvDoc)]}

\* The user keys under CONVERSIONS.
UserIds == 1..2

ConvStores(docs) == [UserIds -> UserNodes(docs)]

NoPlayers == [k \in 1..MaxPlayers |-> NoNode(EmptyPlayerDoc)]

NoConversions == [u \in UserIds |-> NoUser]

InitSource ==
    /\ PLAYERS \in PlayerStores(SourceDocs)
    /\ CONVERSIONS = NoConversions
    /\ ret = NoCall

InitLatest ==
    /\ PLAYERS \in PlayerStores(LatestDocs)
    /\ CONVERSIONS = NoConversions
    /\ ret = NoCall

InitMetrics ==
    /\ PLAYERS \in PlayerStores(MetricDocs)
    /\ CONVERSIONS = NoConversions
    /\ ret = NoCall

InitConv ==
    /\ PLAYERS = NoPlayers
    /\ CONVERSIONS \in ConvStores(TimeDocs)
    /\ ret = NoCall

\* The caller takes the result; the next call can start.
Taken ==
    /\ ret.op # "none"
    /\ ret' = NoCall
    /\ UNCHANGED <<PLAYERS, CONVERSIONS>>

Init ==
    /\ \/ PLAYERS \in PlayerStores(SmallPlayerDocs) /\ CONVERSIONS = NoConversions
       \/ PLAYERS = NoPlayers /\ CONVERSIONS \in ConvStores(SmallConvDocs)
    /\ ret = NoCall

Next ==
    \/ GetPlayerCount
    \/ GetPlayersBySource
    \/ GetAdMetrics
    \/ FetchLatestPlayers
    \/ FetchLatestConversions
    \/ Taken

\* Every function over small contents of both collections.
Spec == Init /\ [][Next]_vars

\* get_players_by_source over the Source values.
NextSource == GetPlayersBySource \/ Taken

SpecSource == InitSource /\ [][NextSource]_vars

NextLatest == FetchLatestPlayers \/ Taken

\* fetch_latest_players over the Install_time values.
SpecLatest == InitLatest /\ [][NextLatest]_vars

NextMetrics == GetAdMetrics \/ GetPlayerCount \/ Taken

\* get_ad_metrics over the Ad_Revenue and Impressions values.
SpecMetrics == InitMetrics /\ [][NextMetrics]_vars

NextConv == FetchLatestConversions \/ Taken

\* fetch_latest_conversions_efficiently over the time values.
SpecConv == InitConv /\ [][NextConv]_vars

----------------------------------------------------------------------------
(* What the properties below speak of.                                     *)

\* The keys under PLAYERS that hold something, and those that hold a
\* document.
PlayerKeys == {k \in 1..MaxPlayers : PLAYERS[k].kind # "none"}

PlayerDocKeys == {k \in 1..MaxPlayers : PLAYERS[k].kind = "doc"}

\* The users and the conversions that a scan of CONVERSIONS reads.
ScannedUsers == {u \in UserIds : CONVERSIONS[u].kind # "none"}

ScannedConvs ==
    {uc \in UserIds \X (1..MaxConvs) :
        /\ CONVERSIONS[uc[1]].kind = "map"
        /\ CONVERSIONS[uc[1]].convs[uc[2]].kind # "none"}

ScannedDocs ==
    {uc \in ScannedConvs : CONVERSIONS[uc[1]].convs[uc[2]].kind = "doc"}

\* The number of reads of a scan in which no read fails.
ConvReads ==
    IF ScannedUsers = {} THEN 1
    ELSE 1 + Cardinality(ScannedUsers) + Cardinality(ScannedConvs)

\* Whether a read of the recorded call raised.
ReadFailed ==
    CASE ret.op = "get_player_count" -> ret.failAt = 1
      [] ret.op = "get_players_by_source" -> ret.failAt \in 1..3
      [] ret.op = "get_ad_metrics" ->
             ret.failAt = 1 \/ (ret.failAt = 2 /\ PlayerKeys # {})
      [] ret.op = "fetch_latest_players" -> ret.failAt = 1 /\ ret.arg >= 0
      [] ret.op = "fetch_latest_conversions_efficiently" ->
             ret.failAt \in 1..ConvReads
      [] OTHER -> FALSE

\* The 'no data' value of each function.
NoData(op) ==
    CASE op = "get_player_count" -> 0
      [] op = "get_players_by_source" -> 0
      [] op = "get_ad_metrics" -> NoMetrics
      [] OTHER -> <<>>

----------------------------------------------------------------------------
\* C1: a call in which a store read raises still returns, and returns its
\* 'no data' value (0, 0, (0, 0), [], []); no exception leaves any of the
\* five functions, whichever read of the call it is that raises.
C1_FailedReadGivesNoData ==
    /\ ~ret.raised
    /\ ReadFailed => ret.value = NoData(ret.op)

\* C1 witness: the second read of get_ad_metrics (the player count) raised
\* after a sample with revenue had been read, and (0, 0) came back.
C1_Witness ==
    /\ ret.op = "get_ad_metrics"
    /\ ret.failAt = 2
    /\ \E k \in PlayerDocKeys : PLAYERS[k].doc["Ad_Revenue"].kind = "num"
    /\ ~ret.raised
    /\ ret.value = NoMetrics

\* C10: fetch_latest_conversions_efficiently gives back [] when any read of
\* its scan raised, whatever it had collected before; what it gives back is
\* non-empty only if no read of the scan raised.
C10_AllOrNothing ==
    ret.op = "fetch_latest_conversions_efficiently" =>
        /\ ret.failAt \in 1..ConvReads => Len(ret.value) = 0
        /\ Len(ret.value) > 0 => ret.failAt \notin 1..ConvReads

\* C10 witness: the last read of a scan over at least two documents raised,
\* with a limit that would have let the earlier ones through.
C10_Witness ==
    /\ ret.op = "fetch_latest_conversions_efficiently"
    /\ ret.arg > 0
    /\ Cardinality(ScannedDocs) >= 2
    /\ ret.failAt = ConvReads
    /\ ret.value = <<>>

----------------------------------------------------------------------------
(* get_ad_metrics: the estimate stated without the code's conversions.     *)

RECURSIVE RatSum(_, _)
\* The sum of f[k] over the keys k in S.
RatSum(S, f) ==
    IF S = {} THEN Zero
    ELSE LET k == CHOOSE x \in S : TRUE
         IN  RatAdd(f[k], RatSum(S \ {k}, f))

\* The number a text of the store contents stands for, if any.
TextNumber(s) ==
    CASE s = <<"7">> -> [numeric |-> TRUE, integer |-> TRUE, n |-> Rat(7, 1)]
      [] s = <<"2", ".", "5">> ->
             [numeric |-> TRUE, integer |-> FALSE, n |-> Rat(5, 2)]
      [] OTHER -> [numeric |-> FALSE, integer |-> FALSE, n |-> Zero]

\* The value of a field as a number: a number, or a text that reads as
\* one; anything else and an absent field count as 0.
NumericValue(v) ==
    CASE v.kind = "num" -> v.n
      [] v.kind = "text" /\ TextNumber(v.s).numeric -> TextNumber(v.s).n
      [] OTHER -> Zero

\* The whole number z next to x on the side of 0: |z| <= |x| < |z| + 1.
TowardZero(x) ==
    LET z == CHOOSE z \in -Abs(x.num)..Abs(x.num) :
                 /\ z * x.num >= 0
                 /\ Abs(z) * x.den <= Abs(x.num)
                 /\ Abs(x.num) < (Abs(z) + 1) * x.den
    IN  Rat(z, 1)

\* The value of a field as a whole number: a number cut toward 0, or a
\* text that reads as a whole number; anything else counts as 0.
WholeValue(v) ==
    CASE v.kind = "num" -> TowardZero(v.n)
      [] v.kind = "text" /\ TextNumber(v.s).integer -> TextNumber(v.s).n
      [] OTHER -> Zero

\* The sample of get_ad_metrics: every entry, while PLAYERS holds no more
\* than SampleSize of them.
SampleKeys == PlayerKeys

\* The sum of Ad_Revenue over the documents, each read as a number.
RevenueSum ==
    RatSum(PlayerDocKeys,
           [k \in PlayerDocKeys |-> NumericValue(PLAYERS[k].doc["Ad_Revenue"])])

\* The sum of Impressions over the documents, each read as a number.
ImpressionsSumAsNumbers ==
    RatSum(PlayerDocKeys,
           [k \in PlayerDocKeys |-> NumericValue(PLAYERS[k].doc["Impressions"])])

\* The sum of Impressions over the documents, each read as a whole number.
ImpressionsSum ==
    RatSum(PlayerDocKeys,
           [k \in PlayerDocKeys |-> WholeValue(PLAYERS[k].doc["Impressions"])])

\* sum / entries * count, and 0 without entries or without a count
Estimate(sum, entries, count) ==
    IF entries = 0 \/ count = 0 THEN Zero
    ELSE Rat(sum.num * count, sum.den * entries)

\* The count get_player_count gave get_ad_metrics: 0 when its read raised.
CountUsed == IF ret.failAt = 2 THEN 0 ELSE Cardinality(PlayerKeys)

\* The sample [{"Ad_Revenue": 100}, {"Ad_Revenue": 300}].
ExampleSample ==
    << DocNode(PlayerDoc(Absent, Absent, Num(100, 1), Absent, Absent)),
       DocNode(PlayerDoc(Absent, Absent, Num(300, 1), Absent, Absent)) >>

ExampleHolds ==
    Extrapolate(SampleTotals(ExampleSample, <<1, 2>>).revenue, 2, 10)
        = Rat(2000, 1)

NonDocuments == Cardinality(SampleKeys) - Cardinality(PlayerDocKeys)

\* The estimate over the sample without its entries that are no documents.
EstimateOfDocuments(sum) == Estimate(sum, Cardinality(PlayerDocKeys), CountUsed)

\* C9 as claimed: the divisor counts every entry of the sample, so with a
\* non-zero sum and at least one entry that is no document the estimate is
\* strictly smaller than that of the sample without those entries.
C9_SmallerAsClaimed ==
    (ret.op = "get_ad_metrics" /\ ret.failAt = 0 /\ NonDocuments >= 1) =>
        /\ RevenueSum # Zero =>
               RatLess(ret.value.revenue, EstimateOfDocuments(RevenueSum))
        /\ ImpressionsSum # Zero =>
               RatLess(ret.value.impressions,
                       EstimateOfDocuments(ImpressionsSum))

\* C9 amended: the estimate times the number of ALL sample entries is the
\* sum over the documents times the player count; so with at least one
\* entry that is no document and a non-zero player count, a positive sum
\* gives a strictly smaller estimate than the sample without those entries
\* and a negative sum a strictly larger one; with a player count of 0 (the
\* count read failed) both are 0.
C9_DivisorCountsAllEntries ==
    (ret.op = "get_ad_metrics" /\ ret.failAt # 1 /\ NonDocuments >= 1) =>
        LET n == Cardinality(SampleKeys)
            Holds(est, sum) ==
                /\ RatMulInt(est, n) = RatMulInt(sum, CountUsed)
                /\ (CountUsed > 0 /\ RatLess(Zero, sum)) =>
                       RatLess(est, EstimateOfDocuments(sum))
                /\ (CountUsed > 0 /\ RatLess(sum, Zero)) =>
                       RatLess(EstimateOfDocuments(sum), est)
                /\ CountUsed = 0 =>
                       est = Zero /\ EstimateOfDocuments(sum) = Zero
        IN  /\ Holds(ret.value.revenue, RevenueSum)
            /\ Holds(ret.value.impressions, ImpressionsSum)

\* C9 witness: a sample of two documents with revenue and one scalar entry,
\* estimated with all reads succeeding.
C9_Witness ==
    /\ ret.op = "get_ad_metrics"
    /\ ret.failAt = 0
    /\ NonDocuments = 1
    /\ Cardinality(PlayerDocKeys) = 2
    /\ RatLess(Zero, RevenueSum)
    /\ RatLess(ret.value.revenue, EstimateOfDocuments(RevenueSum))

----------------------------------------------------------------------------
(* The two fetch functions.                                                *)

\* The sort key of a record as the claims read it: an absent one is 0.
KeyOf(r, field) == GetOrZero(r[field])

\* a is strictly before b in the order of the sort keys
KeyBefore(a, b) ==
    /\ a.kind = b.kind
    /\ IF a.kind = "num" THEN RatLess(a.n, b.n) ELSE TextLess(a.s, b.s)

\* The records are in non-increasing order of the field.
Descending(records, field) ==
    \A i, j \in 1..Len(records) :
        i < j => ~KeyBefore(KeyOf(records[i], field), KeyOf(records[j], field))

\* C3: with the index present and the query answered, fetch_latest_players(N)
\* for N > 0 gives at most N records, in non-increasing order of Install_time.
C3_LatestPlayersDescending ==
    (/\ ret.op = "fetch_latest_players"
     /\ ret.arg > 0
     /\ ret.indexed
     /\ ret.failAt = 0) =>
        /\ Len(ret.value) <= ret.arg
        /\ Descending(ret.value, "Install_time")

\* C5: when the Install_time index is absent (the query comes back empty, or
\* raises) and PLAYERS holds documents, fetch_latest_players(N) falls back
\* to a full read and gives the latest min(N, count) players.
C5_DegradesToScan ==
    (/\ ret.op = "fetch_latest_players"
     /\ ret.arg > 0
     /\ ~ret.indexed
     /\ PlayerDocKeys # {}) =>
        /\ Len(ret.value) = Min(ret.arg, Cardinality(PlayerDocKeys))
        /\ Descending(ret.value, "Install_time")

\* C4: for every N <= 0 both fetch functions give the empty sequence.
C4_NonPositiveLimitGivesEmpty ==
    (/\ ret.op \in {"fetch_latest_players",
                    "fetch_latest_conversions_efficiently"}
     /\ ret.arg <= 0) =>
        Len(ret.value) = 0

\* C8: the identity field of every emitted record holds the key the
\* document was read under, also when the document has a field of that
\* name: uid is a key of PLAYERS, user_id and conversion_id are the keys of
\* a conversion of CONVERSIONS.
C8_IdentityFieldHoldsKey ==
    /\ ret.op = "fetch_latest_players" =>
           \A i \in 1..Len(ret.value) :
               \E k \in PlayerDocKeys : ret.value[i]["uid"] = Txt(PlayerKey(k))
    /\ ret.op = "fetch_latest_conversions_efficiently" =>
           \A i \in 1..Len(ret.value) :
               \E uc \in ScannedDocs :
                   /\ ret.value[i]["user_id"] = Txt(UserKey(uc[1]))
                   /\ ret.value[i]["conversion_id"] = Txt(ConvKey(uc[2]))

\* C7: get_players_by_source(name) counts the players whose Source is the
\* name in any casing, and no others.
C7_SourceMatchIgnoresCase ==
    (ret.op = "get_players_by_source" /\ ret.failAt = 0) =>
        ret.value =
            Cardinality({k \in PlayerDocKeys :
                            /\ PLAYERS[k].doc["Source"].kind = "text"
                            /\ Lower(PLAYERS[k].doc["Source"].s) = Lower(ret.arg)})

\* The place of a scanned conversion in the order of the reads: user order,
\* then conversion order.
ReadPlace(uc) == (uc[1] - 1) * MaxConvs + uc[2]

\* The record of a scanned document whose own fields leave the injected
\* ones alone.
ScannedRecord(uc) ==
    [CONVERSIONS[uc[1]].convs[uc[2]].doc EXCEPT
        !.user_id = Txt(UserKey(uc[1])),
        !.conversion_id = Txt(ConvKey(uc[2]))]

\* C2: when every read succeeds and N >= 0, the scan gives exactly
\* min(N, M) of the M documents read, in non-increasing order of time (an
\* absent time being 0), records of equal time in the order they were read,
\* and no record left out has a larger time than one given.
C2_ScanGivesLatestN ==
    (/\ ret.op = "fetch_latest_conversions_efficiently"
     /\ ret.failAt = 0
     /\ ret.arg >= 0) =>
        LET given == {uc \in ScannedDocs :
                         \E i \in 1..Len(ret.value) :
                             ret.value[i] = ScannedRecord(uc)}
            place(i) == ReadPlace(CHOOSE uc \in ScannedDocs :
                                      ret.value[i] = ScannedRecord(uc))
        IN  /\ Len(ret.value) = Min(ret.arg, Cardinality(ScannedDocs))
            /\ Cardinality(given) = Len(ret.value)
            /\ Descending(ret.value, "time")
            /\ \A i, j \in 1..Len(ret.value) :
                   (i < j /\ KeyOf(ret.value[i], "time")
                                 = KeyOf(ret.value[j], "time"))
                       => place(i) < place(j)
            /\ \A uc \in ScannedDocs \ given : \A i \in 1..Len(ret.value) :
                   ~KeyBefore(KeyOf(ret.value[i], "time"),
                              KeyOf(ScannedRecord(uc), "time"))

\* The time values of the documents read can all be compared with each
\* other: all are numbers (an absent one being 0), or all are texts.
TimesComparable ==
    \A a, b \in ScannedDocs :
        KeyOf(ScannedRecord(a), "time").kind = KeyOf(ScannedRecord(b), "time").kind

\* Where C2 does hold (SpecConv): on the stores whose time values can be
\* compared.  On the others the sort raises and the scan gives [].
ScanGivesLatestNWhenComparable ==
    /\ TimesComparable => C2_ScanGivesLatestN
    /\ (/\ ~TimesComparable
        /\ ret.op = "fetch_latest_conversions_efficiently") => Len(ret.value) = 0

====
